---- MODULE Spec2Model ----
(***************************************************************************)
(* A model of ApplyRE.py: the RegExpression class (construction, apply,    *)
(* apply_narrowly), the rule-file parser get_regexes, and execute.         *)
(*                                                                         *)
(* A Python str is a sequence of one-character strings, so that            *)
(* startswith, lower, split, rstrip and subn are computed character by     *)
(* character as the library computes them.  Find patterns are drawn from   *)
(* the literal subset of the regex syntax plus the character "(", which    *)
(* alone is an unterminated group and is rejected by re.compile.           *)
(* Replacements are literal text, or a reference to group 1, which the     *)
(* literal patterns lack and subn rejects.                                 *)
(***************************************************************************)
EXTENDS Integers, Sequences, FiniteSets, TLC

VARIABLES
    \* a caller of the RegExpression class
    obj,            \* the RegExpression object held by the caller, or None
    call,           \* the last call made: its name and its arguments as passed
    ret,            \* what that call returned or raised
    L,              \* the caller's record list, as apply_narrowly left it
    \* get_regexes
    config,         \* the lines of the rule file read so far
    writer,         \* where in the rule-file format the file's next line stands
    pc,             \* where get_regexes stands
    gr,             \* the local variables of get_regexes
    exc,            \* the exception that left get_regexes, or None
    \* execute
    args,           \* the command-line arguments
    fs,             \* the input file, the output file and the SFMTools module
    step,           \* where execute stands
    run,            \* the local variables of execute
    stdout,         \* what execute printed
    error           \* the exception that left execute, or None

vars == <<obj, call, ret, L, config, writer, pc, gr, exc,
          args, fs, step, run, stdout, error>>

(***************************************************************************)
(* Module constants (ApplyRE.py lines 32-38).                              *)
(***************************************************************************)
STOP_IGNORING == <<"}", "}">>
RECORD_MARKER == <<"l", "x">>
REGEX_DESC == <<"#", "#">>
BROAD == <<"b", "r", "o", "a", "d">>
NARROW == <<"s", "f", "m", "v", "a", "l">>
NARROW_NON_SPECIFIC == <<"s", "f", "m", "v", "a", "l">>
DISABLED == <<"d", "i", "s", "a", "b", "l", "e">>

\* Python's None
None == [none |-> TRUE]

(***************************************************************************)
(* The str methods and re functions the program calls.                     *)
(***************************************************************************)
Range(s) == {s[k] : k \in 1..Len(s)}

UpperLetters == <<"A", "B", "C", "D", "E", "F", "G", "H", "I", "J", "K", "L", "M",
                  "N", "O", "P", "Q", "R", "S", "T", "U", "V", "W", "X", "Y", "Z">>
LowerLetters == <<"a", "b", "c", "d", "e", "f", "g", "h", "i", "j", "k", "l", "m",
                  "n", "o", "p", "q", "r", "s", "t", "u", "v", "w", "x", "y", "z">>

lower_char(c) ==
    IF c \in Range(UpperLetters)
    THEN LowerLetters[CHOOSE k \in 1..26 : UpperLetters[k] = c]
    ELSE c

\* str.lower()
lower(s) == [k \in 1..Len(s) |-> lower_char(s[k])]

\* str.startswith(prefix)
startswith(s, prefix) ==
    /\ Len(s) >= Len(prefix)
    /\ SubSeq(s, 1, Len(prefix)) = prefix

\* sep in s, for a one-character sep
contains(s, c) == c \in Range(s)

RECURSIVE split_from(_, _, _, _)
split_from(s, sep, k, cur) ==
    IF k > Len(s) THEN <<cur>>
    ELSE IF s[k] = sep THEN <<cur>> \o split_from(s, sep, k + 1, <<>>)
    ELSE split_from(s, sep, k + 1, Append(cur, s[k]))

\* str.split(sep) for a one-character sep: empty tokens are kept
split(s, sep) == split_from(s, sep, 1, <<>>)

Whitespace == {" ", "\t", "\n", "\r"}

RECURSIVE rstrip_chars(_, _)
rstrip_chars(s, chars) ==
    IF Len(s) > 0 /\ s[Len(s)] \in chars
    THEN rstrip_chars(SubSeq(s, 1, Len(s) - 1), chars)
    ELSE s

RECURSIVE lstrip_chars(_, _)
lstrip_chars(s, chars) ==
    IF Len(s) > 0 /\ s[1] \in chars
    THEN lstrip_chars(Tail(s), chars)
    ELSE s

\* str.rstrip() and str.strip() with no argument
rstrip(s) == rstrip_chars(s, Whitespace)
strip(s) == lstrip_chars(rstrip_chars(s, Whitespace), Whitespace)

\* re.compile(find_this, flags) succeeds
re_compiles(find_this) == ~contains(find_this, "(")

Backslash == "\\"

\* pattern.subn(repl, ...) accepts repl: a replacement that holds a backslash
\* is parsed as a template before any match is looked for, and the only
\* backslash the replacements drawn here hold is that of a reference to
\* group 1, which a literal pattern does not have
template_ok(repl) == ~contains(repl, Backslash)

match_at(find, s, k) ==
    /\ k + Len(find) - 1 <= Len(s)
    /\ SubSeq(s, k, k + Len(find) - 1) = find

RECURSIVE subn_from(_, _, _, _)
subn_from(find, repl, s, k) ==
    IF Len(find) = 0
    THEN IF k > Len(s) THEN <<repl, 1>>
         ELSE LET r == subn_from(find, repl, s, k + 1)
              IN  <<repl \o <<s[k]>> \o r[1], r[2] + 1>>
    ELSE IF k > Len(s) THEN << <<>>, 0 >>
         ELSE IF match_at(find, s, k)
              THEN LET r == subn_from(find, repl, s, k + Len(find))
                   IN  <<repl \o r[1], r[2] + 1>>
              ELSE LET r == subn_from(find, repl, s, k + 1)
                   IN  << <<s[k]>> \o r[1], r[2] >>

\* pattern.subn(repl, string, 0): replace every non-overlapping match,
\* leftmost first; returns <<new string, number of replacements>>
subn(find, repl, s) == subn_from(find, repl, s, 1)

(***************************************************************************)
(* class RegExpression                                                     *)
(***************************************************************************)
Raise(kind, info) == [raised |-> TRUE, exc |-> kind, info |-> info]

NewRule(find_this, replace_with, narrow, narrow_specific, fields) ==
    [raised |-> FALSE,
     self |-> [_findstr |-> find_this, _replace |-> replace_with,
               narrow |-> narrow, _narrow_specific |-> narrow_specific,
               _fields |-> fields]]

\* a variant that compares the label as written, without lower()
RegExpression_case_sensitive(find_this, replace_with, fields) ==
    LET f == fields IN
    IF ~re_compiles(find_this) THEN Raise("re.error", find_this)
    ELSE IF startswith(f, BROAD)
    THEN NewRule(find_this, replace_with, FALSE, FALSE, <<>>)
    ELSE IF startswith(f, NARROW \o <<":">>) \/ startswith(f, NARROW \o <<" ">>)
    THEN NewRule(find_this, replace_with, TRUE, TRUE, Tail(split(fields, " ")))
    ELSE IF startswith(f, NARROW_NON_SPECIFIC)
    THEN NewRule(find_this, replace_with, TRUE, FALSE, <<>>)
    ELSE Raise("InvalidScope", fields)

\* a variant that builds a rule for a label that starts with "disable"
RegExpression_accepts_disabled(find_this, replace_with, fields) ==
    LET f == lower(fields) IN
    IF ~re_compiles(find_this) THEN Raise("re.error", find_this)
    ELSE IF startswith(f, lower(DISABLED)) \/ startswith(f, BROAD)
    THEN NewRule(find_this, replace_with, FALSE, FALSE, <<>>)
    ELSE IF startswith(f, NARROW \o <<":">>) \/ startswith(f, NARROW \o <<" ">>)
    THEN NewRule(find_this, replace_with, TRUE, TRUE, Tail(split(fields, " ")))
    ELSE IF startswith(f, NARROW_NON_SPECIFIC)
    THEN NewRule(find_this, replace_with, TRUE, FALSE, <<>>)
    ELSE Raise("InvalidScope", fields)

\* RegExpression.__init__: the object built, or the exception raised
RegExpression(find_this, replace_with, fields) ==
    LET f == lower(fields) IN
    IF ~re_compiles(find_this) THEN Raise("re.error", find_this)
    ELSE IF startswith(f, BROAD)
    THEN NewRule(find_this, replace_with, FALSE, FALSE, <<>>)
    ELSE IF startswith(f, NARROW \o <<":">>) \/ startswith(f, NARROW \o <<" ">>)
    THEN NewRule(find_this, replace_with, TRUE, TRUE, Tail(split(fields, " ")))
    ELSE IF startswith(f, NARROW_NON_SPECIFIC)
    THEN NewRule(find_this, replace_with, TRUE, FALSE, <<>>)
    ELSE Raise("InvalidScope", fields)

\* RegExpression.apply: <<new data, count>>, or the exception raised
apply(self, data) ==
    IF self.narrow THEN Raise("WrongMode", "broad")
    ELSE IF ~template_ok(self._replace) THEN Raise("re.error", self._replace)
    ELSE [raised |-> FALSE, value |-> subn(self._findstr, self._replace, data)]

\* a variant that substitutes in every field, whatever the rule's field list
in_scope_every_field(self, mkr) == TRUE

\* the test of line 118: does the rule apply to a field with this marker
in_scope(self, mkr) ==
    (~self._narrow_specific) \/ (mkr \in Range(self._fields))

RECURSIVE narrow_loop_index_lags(_, _, _, _)
\* a variant in which the index written advances for in-scope fields only
narrow_loop_index_lags(self, record, i, count) ==
    IF i > Len(record) THEN [record |-> record, count |-> count, raised |-> FALSE]
    ELSE LET mkr == record[i][1]
             field_data == record[i][2]
             w == 1 + Cardinality({j \in 1..(i - 1) : in_scope(self, record[j][1])})
         IN  IF in_scope(self, mkr) /\ ~template_ok(self._replace)
             THEN [record |-> record, count |-> count, raised |-> TRUE]
             ELSE IF in_scope(self, mkr)
             THEN LET r == subn(self._findstr, self._replace, field_data)
                  IN  IF r[2] # 0
                      THEN narrow_loop_index_lags(self, [record EXCEPT ![w] = <<mkr, r[1]>>],
                                                  i + 1, count + r[2])
                      ELSE narrow_loop_index_lags(self, record, i + 1, count)
             ELSE narrow_loop_index_lags(self, record, i + 1, count)

RECURSIVE narrow_loop(_, _, _, _)
narrow_loop(self, record, i, count) ==
    IF i > Len(record) THEN [record |-> record, count |-> count, raised |-> FALSE]
    ELSE LET mkr == record[i][1]
             field_data == record[i][2]
         IN  IF in_scope(self, mkr) /\ ~template_ok(self._replace)
             THEN [record |-> record, count |-> count, raised |-> TRUE]
             ELSE IF in_scope(self, mkr)
             THEN LET r == subn(self._findstr, self._replace, field_data)
                  IN  IF r[2] # 0
                      THEN narrow_loop(self, [record EXCEPT ![i] = <<mkr, r[1]>>],
                                       i + 1, count + r[2])
                      ELSE narrow_loop(self, record, i + 1, count)
             ELSE narrow_loop(self, record, i + 1, count)

\* a variant without the mode check of lines 111-112
apply_narrowly_unchecked(self, record) ==
    LET r == narrow_loop(self, record, 1, 0)
    IN  IF r.raised
        THEN [raised |-> TRUE, exc |-> "re.error", info |-> self._replace,
              record |-> r.record]
        ELSE [raised |-> FALSE, record |-> r.record, count |-> r.count]

\* RegExpression.apply_narrowly: the record list after the call and the
\* count returned, or the exception raised (the list is then as passed)
apply_narrowly(self, record) ==
    IF ~self.narrow
    THEN [raised |-> TRUE, exc |-> "WrongMode", info |-> "narrow", record |-> record]
    ELSE LET r == narrow_loop(self, record, 1, 0)
         IN  IF r.raised
             THEN [raised |-> TRUE, exc |-> "re.error", info |-> self._replace,
                   record |-> r.record]
             ELSE [raised |-> FALSE, record |-> r.record, count |-> r.count]

(***************************************************************************)
(* get_regexes                                                             *)
(***************************************************************************)
\* a variant of the disabled test that looks at the label's first character
\* only, as the commented-out line 201 does on a str
is_disabled_first_char(scope) ==
    scope # <<>> /\ startswith(<<scope[1]>>, DISABLED)

\* line 202: scope.lower().startswith(DISABLED.lower())
is_disabled(scope) == startswith(lower(scope), lower(DISABLED))

\* a variant that finds the stop marker anywhere in the line
stops_ignoring_anywhere(data) ==
    \E k \in 1..Len(data) : match_at(STOP_IGNORING, data, k)

\* line 168: data.startswith(STOP_IGNORING)
stops_ignoring(data) == startswith(data, STOP_IGNORING)

\* Exception('Config ERROR near line {}: ...')
ConfigError(line, reason) ==
    [raised |-> TRUE, exc |-> "Config", has_line |-> TRUE, line |-> line,
     reason |-> reason]

\* Exception('Config ERROR: Please close the initial comments ...')
NoRulesError ==
    [raised |-> TRUE, exc |-> "Config", has_line |-> FALSE, reason |-> "no rules"]

\* the locals of get_regexes when it starts (line 162)
gr_start ==
    [i |-> 0, record_marker |-> RECORD_MARKER, state |-> 0, scope |-> None,
     find_this |-> None, replace_with |-> None, regexes |-> <<>>]

\* one pass of the loop of lines 165-169 over a line that was read
skip_line(fr, data) == [fr EXCEPT !.i = fr.i + 1]

\* a variant that takes the text between the first and the second colon
read_header_first_colon(fr, toss, tmp) ==
    [fr EXCEPT !.record_marker =
                    IF contains(tmp, ":")
                    THEN LET parts == split(tmp, ":") IN strip(parts[2])
                    ELSE RECORD_MARKER,
               !.i = fr.i + 3]

\* lines 171-176: toss is dropped, tmp may name the record marker; a line
\* that could not be read (end of file) is the empty string
read_header(fr, toss, tmp) ==
    [fr EXCEPT !.record_marker =
                    IF contains(tmp, ":")
                    THEN LET parts == split(tmp, ":") IN strip(parts[Len(parts)])
                    ELSE RECORD_MARKER,
               !.i = fr.i + 3]

\* a variant that strips the blanks around the find line
parse_line_strips_find(fr, rawline) ==
    LET i1 == fr.i + 1
        line == rstrip_chars(rawline, {"\r", "\n"})
        fr1 == [fr EXCEPT !.i = i1]
    IN  CASE fr.state = 0 ->
                LET l0 == rstrip(line) IN
                IF l0 = <<>> THEN [fr |-> fr1, exc |-> None]
                ELSE IF startswith(l0, REGEX_DESC)
                THEN [fr |-> [fr1 EXCEPT !.state = 1], exc |-> None]
                ELSE [fr |-> fr1, exc |-> ConfigError(i1, "description")]
          [] fr.state = 1 ->
                IF ~startswith(line, REGEX_DESC)
                THEN [fr |-> [fr1 EXCEPT !.scope = line, !.state = 2], exc |-> None]
                ELSE [fr |-> fr1, exc |-> None]
          [] fr.state = 2 ->
                [fr |-> [fr1 EXCEPT !.find_this = strip(line), !.state = 3], exc |-> None]
          [] fr.state = 3 ->
                LET fr2 == [fr1 EXCEPT !.replace_with = line]
                    reset == [fr2 EXCEPT !.find_this = None, !.replace_with = None,
                                         !.scope = None, !.state = 0]
                IN  IF is_disabled(fr.scope)
                    THEN [fr |-> reset, exc |-> None]
                    ELSE LET r == RegExpression(fr.find_this, line, fr.scope) IN
                         IF r.raised THEN [fr |-> fr2, exc |-> r]
                         ELSE [fr |-> [reset EXCEPT !.regexes = Append(fr.regexes, r.self)],
                               exc |-> None]

\* one pass of the loop of lines 180-208: the locals after it and the
\* exception it raised, if any
parse_line(fr, rawline) ==
    LET i1 == fr.i + 1
        line == rstrip_chars(rawline, {"\r", "\n"})
        fr1 == [fr EXCEPT !.i = i1]
    IN  CASE fr.state = 0 ->
                LET l0 == rstrip(line) IN
                IF l0 = <<>> THEN [fr |-> fr1, exc |-> None]
                ELSE IF startswith(l0, REGEX_DESC)
                THEN [fr |-> [fr1 EXCEPT !.state = 1], exc |-> None]
                ELSE [fr |-> fr1, exc |-> ConfigError(i1, "description")]
          [] fr.state = 1 ->
                IF ~startswith(line, REGEX_DESC)
                THEN [fr |-> [fr1 EXCEPT !.scope = line, !.state = 2], exc |-> None]
                ELSE [fr |-> fr1, exc |-> None]
          [] fr.state = 2 ->
                [fr |-> [fr1 EXCEPT !.find_this = line, !.state = 3], exc |-> None]
          [] fr.state = 3 ->
                LET fr2 == [fr1 EXCEPT !.replace_with = line]
                    reset == [fr2 EXCEPT !.find_this = None, !.replace_with = None,
                                         !.scope = None, !.state = 0]
                IN  IF is_disabled(fr.scope)
                    THEN [fr |-> reset, exc |-> None]
                    ELSE LET r == RegExpression(fr.find_this, line, fr.scope) IN
                         IF r.raised THEN [fr |-> fr2, exc |-> r]
                         ELSE [fr |-> [reset EXCEPT !.regexes = Append(fr.regexes, r.self)],
                               exc |-> None]

\* a variant without the check of lines 209-210
finish_no_state_check(fr) ==
    IF Len(fr.regexes) < 1 THEN NoRulesError
    ELSE [raised |-> FALSE, value |-> <<fr.record_marker, fr.regexes>>]

\* a variant without the check of lines 211-212
finish_no_count_check(fr) ==
    IF fr.state # 0 THEN ConfigError(fr.i, "incomplete")
    ELSE [raised |-> FALSE, value |-> <<fr.record_marker, fr.regexes>>]

\* lines 209-213: what get_regexes returns or raises after the last line
\* (the error of line 212 carries no line number)
finish(fr) ==
    IF fr.state # 0 THEN ConfigError(fr.i, "incomplete")
    ELSE IF Len(fr.regexes) < 1 THEN NoRulesError
    ELSE [raised |-> FALSE, value |-> <<fr.record_marker, fr.regexes>>]

RECURSIVE skip_comments(_, _)
\* the loop of lines 165-169 over a whole file: the locals and the lines
\* left unread when it ends (reading the end of the file counts in i too)
skip_comments(fr, lines) ==
    IF lines = <<>> THEN [fr |-> [fr EXCEPT !.i = fr.i + 1], rest |-> <<>>]
    ELSE IF stops_ignoring(Head(lines))
    THEN [fr |-> skip_line(fr, Head(lines)), rest |-> Tail(lines)]
    ELSE skip_comments(skip_line(fr, Head(lines)), Tail(lines))

RECURSIVE parse_lines(_, _)
\* the loop of lines 180-208 over the lines readlines() returned
parse_lines(fr, lines) ==
    IF lines = <<>> THEN [fr |-> fr, exc |-> None]
    ELSE LET r == parse_line(fr, Head(lines)) IN
         IF r.exc # None THEN r ELSE parse_lines(r.fr, Tail(lines))

\* readline(): the next line, or the empty string at the end of the file
readline(lines) == IF lines = <<>> THEN <<>> ELSE Head(lines)
after_readline(lines) == IF lines = <<>> THEN <<>> ELSE Tail(lines)

\* get_regexes on a whole rule file: what it returns or raises
get_regexes(lines) ==
    LET s == skip_comments(gr_start, lines)
        toss == readline(s.rest)
        tmp == readline(after_readline(s.rest))
        data == after_readline(after_readline(s.rest))
        r == parse_lines(read_header(s.fr, toss, tmp), data)
    IN  IF r.exc # None THEN r.exc ELSE finish(r.fr)

(***************************************************************************)
(* A caller of the class: it constructs a rule and applies it, in either   *)
(* mode, to a text or to a record.  A RegExpression is not changed by a    *)
(* call, so one call on each object shows every call on it.                *)
(***************************************************************************)
MaxFields == 2

Str_e == <<"e">>
Str_paren == <<"(">>
Str_E == <<"E">>
Str_lx == <<"l", "x">>
Str_de == <<"d", "e">>
Str_se == <<"s", "e">>

FindInputs == {Str_e, Str_paren, <<>>}
ReplaceInputs == {Str_E, <<Backslash, "1">>}
LabelInputs ==
    { BROAD,
      <<"B", "r", "o", "a", "d", "l", "y">>,
      NARROW,
      <<"s", "f", "m", "v", "a", "l", ":", " ", "d", "e", " ", "s", "e">>,
      <<"S", "F", "M", "V", "A", "L", " ", "d", "e">>,
      <<"s", "f", "m", "v", "a", "l", ":", "d", "e">>,
      <<"s", "f", "m", "v", "a", "l", "x", " ", "d", "e">>,
      <<"D", "I", "S", "A", "B", "L", "E", "D", "-", "x">>,
      <<"d", "i", "s", "a", "b", "l", "e">>,
      <<"w", "e", "i", "r", "d">>,
      <<>> }
TextInputs == { <<"e">>, <<"x", "e", "e">>, <<"x">> }
MarkerInputs == {Str_lx, Str_de, Str_se}
FieldInputs == MarkerInputs \X TextInputs
RecordInputs == UNION {[1..n -> FieldInputs] : n \in 0..MaxFields}

NoCall == [op |-> "none"]

\* the rule file before its first line is written
WriterStart == [at |-> "comment", nbody |-> 0, nostop |-> FALSE, eof |-> FALSE]

parse_vars == <<config, writer, pc, gr, exc>>
exec_vars == <<args, fs, step, run, stdout, error>>

\* execute is not running
NoExecute ==
    /\ args = None /\ fs = None /\ step = "idle" /\ run = None
    /\ stdout = <<>> /\ error = None

InitRule ==
    /\ obj = None
    /\ call = NoCall
    /\ ret = None
    /\ L = <<>>
    /\ config = <<>>
    /\ writer = WriterStart
    /\ pc = "idle"
    /\ gr = gr_start
    /\ exc = None
    /\ NoExecute

\* regex = RegExpression(find_this, replace_with, fields)
New(find_this, replace_with, fields) ==
    LET r == RegExpression(find_this, replace_with, fields) IN
    /\ call.op = "none"
    /\ call' = [op |-> "__init__", find_this |-> find_this,
                replace_with |-> replace_with, fields |-> fields]
    /\ ret' = r
    /\ obj' = IF r.raised THEN None ELSE r.self
    /\ L' = <<>>
    /\ UNCHANGED <<parse_vars, exec_vars>>

\* regex.apply(data)
Apply(data) ==
    /\ call.op = "__init__"
    /\ obj # None
    /\ call' = [op |-> "apply", data |-> data]
    /\ ret' = apply(obj, data)
    /\ UNCHANGED obj
    /\ L' = <<>>
    /\ UNCHANGED <<parse_vars, exec_vars>>

\* regex.apply_narrowly(record)
ApplyNarrowly(rec) ==
    LET r == apply_narrowly(obj, rec) IN
    /\ call.op = "__init__"
    /\ obj # None
    /\ call' = [op |-> "apply_narrowly", record |-> rec]
    /\ ret' = IF r.raised THEN [raised |-> TRUE, exc |-> r.exc, info |-> r.info]
              ELSE [raised |-> FALSE, count |-> r.count]
    /\ L' = r.record
    /\ UNCHANGED obj
    /\ UNCHANGED <<parse_vars, exec_vars>>

NextRule ==
    \/ \E f \in FindInputs, r \in ReplaceInputs, l \in LabelInputs : New(f, r, l)
    \/ \E d \in TextInputs : Apply(d)
    \/ \E rec \in RecordInputs : ApplyNarrowly(rec)

SpecRule == InitRule /\ [][NextRule]_vars

(***************************************************************************)
(* get_regexes line by line.  The rule file is written as it is read: its  *)
(* next line is any line of LinesAt(place), place being where the file     *)
(* stands in the documented format (a comment block of at most one line,   *)
(* the stop line, the tossed line, the record-marker line, then entries,   *)
(* each of at most one blank line, description lines, and a scope, a find  *)
(* and a replace line).  The writer may leave the stop line out, may end   *)
(* the file after any line, and writes nothing after a line that is no     *)
(* description where an entry must start.                                  *)
(***************************************************************************)
MaxBody == 8

Ln(s) == s \o <<"\n">>

Line_desc == Ln(<<"#", "#", "d">>)
Line_blank == Ln(<<>>)
Line_spaces == Ln(<<" ", " ">>)
Line_broad == Ln(BROAD)
Line_narrow_de == Ln(<<"s", "f", "m", "v", "a", "l", ":", " ", "d", "e">>)
Line_disabled == Ln(<<"D", "I", "S", "A", "B", "L", "E", "D", "-", "x">>)
Line_find == Ln(<<" ", "e", " ">>)
Line_stop == Ln(STOP_IGNORING)
Line_comment == Ln(<<"c", " ", "}", "}">>)

LinesAt(place) ==
    CASE place = "comment" -> {Line_comment, Line_stop}
      [] place = "stop" -> {Line_stop}
      [] place = "toss" -> {Line_blank, Line_desc}
      [] place = "marker" ->
            {Line_blank, Ln(<<"m", ":", " ", "s", "e", " ">>), Ln(<<"a", ":", "b", ":">>)}
      [] place = "idle" -> {Line_blank, Line_spaces, Line_desc, Line_broad}
      [] place = "entry" -> {Line_desc, Line_broad}
      [] place = "desc" ->
            {Line_desc, Line_broad, Line_narrow_de, Line_disabled, Line_blank}
      [] place = "find" -> {Line_find, Ln(<<"(">>), Ln(<<"#", "#">>), Line_blank}
      [] place = "replace" -> {Ln(<<"E">>), Line_blank}
      [] place = "broken" -> {}

\* the lines of a file that leaves the stop line out: apart from that, the
\* file is written as documented
PlainLines ==
    {Line_comment, Line_blank, Line_desc, Line_broad, Line_disabled,
     Line_find, Ln(<<"E">>)}

\* where the file stands after the writer put `line` at `place`
NextPlace(place, line) ==
    CASE place = "comment" -> IF line = Line_stop THEN "toss" ELSE "stop"
      [] place = "stop" -> "toss"
      [] place = "toss" -> "marker"
      [] place = "marker" -> "idle"
      [] place = "idle" -> IF line = Line_desc THEN "desc"
                           ELSE IF line = Line_broad THEN "broken" ELSE "entry"
      [] place = "entry" -> IF line = Line_desc THEN "desc" ELSE "broken"
      [] place = "desc" -> IF line = Line_desc THEN "desc" ELSE "find"
      [] place = "find" -> "replace"
      [] place = "replace" -> "idle"

IsBody(place) == place \in {"idle", "entry", "desc", "find", "replace"}

\* what readline() returns at the end of the file
EOF == <<>>

\* the places the next line may be written for: the writer may go on
\* to the tossed line without having written the stop line
Places(w) == {w.at} \cup (IF w.at \in {"comment", "stop"} THEN {"toss"} ELSE {})

Allowed(w, place, line) ==
    /\ IsBody(place) => w.nbody < MaxBody
    /\ (w.nostop \/ place # w.at) => line \in PlainLines

\* the lines the file may hold next
NextLines(w) ==
    IF w.eof THEN {}
    ELSE UNION { {line \in LinesAt(place) : Allowed(w, place, line)} : place \in Places(w) }

\* what a read may return: a next line, or the end of the file
Reads(w) == NextLines(w) \cup {EOF}

PlaceOf(w, line) == CHOOSE place \in Places(w) : line \in LinesAt(place)

\* the writer after the line was written (after EOF, the file has ended)
After(w, line) ==
    IF line = EOF THEN [w EXCEPT !.eof = TRUE]
    ELSE LET place == PlaceOf(w, line) IN
         [w EXCEPT !.at = NextPlace(place, line),
                   !.nostop = @ \/ (place # w.at),
                   !.nbody = IF IsBody(place) THEN @ + 1 ELSE @]

Add(lines, line) == IF line = EOF THEN lines ELSE Append(lines, line)

InitParse ==
    /\ obj = None /\ call = NoCall /\ ret = None /\ L = <<>>
    /\ config = <<>>
    /\ writer = WriterStart
    /\ pc = "skip"
    /\ gr = gr_start
    /\ exc = None
    /\ NoExecute

\* lines 165-169, one pass of the loop
SkipLine ==
    /\ pc = "skip"
    /\ \E data \in Reads(writer) :
          /\ writer' = After(writer, data)
          /\ config' = Add(config, data)
          /\ gr' = skip_line(gr, data)
          /\ pc' = IF data # EOF /\ stops_ignoring(data) THEN "header"
                   ELSE IF data = EOF THEN "header" ELSE "skip"
    /\ UNCHANGED <<obj, call, ret, L, exc, exec_vars>>

\* lines 171-176: two lines are read, the second may name the record marker
ReadHeader ==
    /\ pc = "header"
    /\ \E toss \in Reads(writer) :
          LET w1 == After(writer, toss) IN
          \E tmp \in Reads(w1) :
              /\ writer' = After(w1, tmp)
              /\ config' = Add(Add(config, toss), tmp)
              /\ gr' = read_header(gr, toss, tmp)
    /\ pc' = "entries"
    /\ UNCHANGED <<obj, call, ret, L, exc, exec_vars>>

\* lines 180-208, one pass of the loop over the lines readlines() returned
ParseLine ==
    /\ pc = "entries"
    /\ \E line \in NextLines(writer) :
          LET r == parse_line(gr, line) IN
          /\ writer' = After(writer, line)
          /\ config' = Add(config, line)
          /\ gr' = r.fr
          /\ exc' = r.exc
          /\ pc' = IF r.exc # None THEN "raised" ELSE "entries"
    /\ UNCHANGED <<obj, call, ret, L, exec_vars>>

\* lines 209-213, after the last line
Finish ==
    /\ pc = "entries"
    /\ LET r == finish(gr) IN
          /\ pc' = IF r.raised THEN "raised" ELSE "returned"
          /\ exc' = IF r.raised THEN r ELSE None
          /\ ret' = IF r.raised THEN None ELSE r
    /\ writer' = After(writer, EOF)
    /\ UNCHANGED <<obj, call, L, config, gr, exec_vars>>

NextParse ==
    \/ SkipLine
    \/ ReadHeader
    \/ ParseLine
    \/ Finish

SpecParse == InitParse /\ [][NextParse]_vars

\* the line-by-line run and get_regexes on the whole file agree
ParseAgrees ==
    pc \in {"returned", "raised"} =>
        get_regexes(config) = (IF pc = "raised" THEN exc ELSE ret)

(***************************************************************************)
(* Properties of the RegExpression class, checked under SpecRule.          *)
(***************************************************************************)
HasMatch(self, s) == subn(self._findstr, self._replace, s)[2] > 0

\* C3: apply_narrowly keeps the number of field pairs and every marker at
\* its position, and leaves the content of every pair whose marker is not
\* in a NarrowSpecificFields rule's field list as it was, match or no match.
C3_NarrowKeepsStructure ==
    (call.op = "apply_narrowly" /\ obj.narrow) =>
        /\ Len(L) = Len(call.record)
        /\ \A k \in 1..Len(L) :
              /\ L[k][1] = call.record[k][1]
              /\ (obj._narrow_specific /\ call.record[k][1] \notin Range(obj._fields))
                    => L[k][2] = call.record[k][2]

\* C3 witness: a NarrowSpecificFields rule changed an in-scope field of a
\* record that also holds an out-of-scope field whose content matches.
C3_Witness ==
    /\ call.op = "apply_narrowly"
    /\ obj.narrow /\ obj._narrow_specific
    /\ L # call.record
    /\ \E k \in 1..Len(L) :
          /\ call.record[k][1] \notin Range(obj._fields)
          /\ HasMatch(obj, call.record[k][2])

\* C4: apply on a narrow rule and apply_narrowly on a broad rule raise the
\* wrong-mode error, return nothing, and leave the record as it was passed.
C4_WrongModeRaises ==
    /\ (call.op = "apply" /\ obj.narrow) =>
          (ret.raised /\ ret.exc = "WrongMode")
    /\ (call.op = "apply_narrowly" /\ ~obj.narrow) =>
          (ret.raised /\ ret.exc = "WrongMode" /\ L = call.record)

\* C4 witness: apply_narrowly was called on a broad rule with a record
\* holding a field the pattern matches.
C4_Witness ==
    /\ call.op = "apply_narrowly"
    /\ ~obj.narrow
    /\ ret.raised
    /\ \E k \in 1..Len(call.record) : HasMatch(obj, call.record[k][2])

\* the tokens of a label after its first space
RECURSIVE AfterFirstSpace(_)
AfterFirstSpace(s) ==
    IF s = <<>> THEN <<>>
    ELSE IF Head(s) = " " THEN split(Tail(s), " ")
    ELSE AfterFirstSpace(Tail(s))

\* what the scope label of a construction call is classified as
LabelClass(fields) ==
    LET f == lower(fields) IN
    IF startswith(f, <<"b", "r", "o", "a", "d">>) THEN "Broad"
    ELSE IF startswith(f, <<"s", "f", "m", "v", "a", "l", ":">>)
            \/ startswith(f, <<"s", "f", "m", "v", "a", "l", " ">>)
         THEN "NarrowSpecificFields"
    ELSE IF startswith(f, <<"s", "f", "m", "v", "a", "l">>) THEN "NarrowAllFields"
    ELSE IF startswith(f, <<"d", "i", "s", "a", "b", "l", "e">>) THEN "Disable"
    ELSE "Invalid"

Classified(c, r) ==
    CASE LabelClass(c.fields) = "Broad" ->
            ~r.raised /\ ~r.self.narrow
      [] LabelClass(c.fields) = "NarrowSpecificFields" ->
            /\ ~r.raised
            /\ r.self.narrow /\ r.self._narrow_specific
            /\ r.self._fields = AfterFirstSpace(c.fields)
      [] LabelClass(c.fields) = "NarrowAllFields" ->
            ~r.raised /\ r.self.narrow /\ ~r.self._narrow_specific
      [] LabelClass(c.fields) = "Invalid" ->
            r.raised /\ r.exc = "InvalidScope" /\ r.info = c.fields
      [] OTHER -> TRUE

\* C5 as stated: every construction classifies its scope label by prefix,
\* case-insensitively (broad, then sfmval: / sfmval + space with the tokens
\* after the first space, then sfmval), and a label that starts with none
\* of broad, sfmval, disable fails with the invalid-scope error naming it.
C5_AsStated ==
    call.op = "__init__" => Classified(call, ret)

\* C5 amended: the same classification for every construction whose find
\* pattern compiles; a find pattern that does not compile fails with the
\* regex compile error before the label is looked at, whatever the label.
C5_ClassifiesLabel ==
    call.op = "__init__" =>
        IF contains(call.find_this, "(")
        THEN ret.raised /\ ret.exc = "re.error"
        ELSE Classified(call, ret)

\* C5 witness: a mixed-case label with a colon qualifier was classified.
C5_Witness ==
    /\ call.op = "__init__"
    /\ ~ret.raised
    /\ call.fields # lower(call.fields)
    /\ ret.self._narrow_specific
    /\ Len(ret.self._fields) >= 1

\* C15 as stated: constructing a rule with a label that starts with
\* "disable" yields a rule and does not fail.
C15_AsStated ==
    (call.op = "__init__" /\ LabelClass(call.fields) = "Disable") => ~ret.raised

\* C15: constructing a rule with a label that starts with "disable" (any
\* case, any suffix) yields no rule: it fails with the invalid-scope error
\* naming the label, or with the regex compile error when the find pattern
\* does not compile.  The class has no Disabled scope.
C15_DisableLabelRejected ==
    (call.op = "__init__" /\ LabelClass(call.fields) = "Disable") =>
        /\ ret.raised /\ obj = None
        /\ IF re_compiles(call.find_this)
           THEN ret.exc = "InvalidScope" /\ ret.info = call.fields
           ELSE ret.exc = "re.error"

\* C15 witness: the label "DISABLED-x" with a find pattern that compiles
\* was rejected as an invalid scope label.
C15_Witness ==
    /\ call.op = "__init__"
    /\ call.fields = <<"D", "I", "S", "A", "B", "L", "E", "D", "-", "x">>
    /\ re_compiles(call.find_this)
    /\ ret.raised /\ ret.exc = "InvalidScope"

\* is the k-th pair of the record passed one the rule substitutes in
InScopeAt(k) ==
    (~obj._narrow_specific) \/ (call.record[k][1] \in Range(obj._fields))

\* substitute-all on the content of the k-th pair of the record passed
SubnAt(k) == subn(obj._findstr, obj._replace, call.record[k][2])

RECURSIVE SumInScope(_)
\* the substitutions in the in-scope pairs among the first k
SumInScope(k) ==
    IF k = 0 THEN 0
    ELSE SumInScope(k - 1) + (IF InScopeAt(k) THEN SubnAt(k)[2] ELSE 0)

\* C18: the count apply_narrowly returns is the sum, over the in-scope
\* pairs of the record (all pairs for a rule without field names; every
\* pair whose marker is among the field names otherwise, each occurrence
\* of a repeated marker included), of the substitutions made in that
\* pair's content; the pair at a position is replaced, by its marker and
\* its own new content, exactly when it is in scope and its own count is
\* not zero.
C18_NarrowCountAndIndex ==
    (call.op = "apply_narrowly" /\ obj.narrow /\ ~ret.raised) =>
        /\ ret.count = SumInScope(Len(call.record))
        /\ Len(L) = Len(call.record)
        /\ \A k \in 1..Len(call.record) :
              L[k] = IF InScopeAt(k) /\ SubnAt(k)[2] # 0
                     THEN <<call.record[k][1], SubnAt(k)[1]>>
                     ELSE call.record[k]

\* C18 witness: a rule for the field "de" was applied to a record that
\* holds an out-of-scope pair first and then a "de" pair it changed.
C18_Witness ==
    /\ call.op = "apply_narrowly" /\ ~ret.raised
    /\ obj._narrow_specific
    /\ Len(call.record) = 2
    /\ ~InScopeAt(1) /\ SubnAt(1)[2] > 0
    /\ InScopeAt(2) /\ ret.count = 2
    /\ L[2] # call.record[2]

(***************************************************************************)
(* SFMTools, the record reader execute imports.  Its code is not part of   *)
(* ApplyRE.py; it is modelled from its documented interface: given the     *)
(* document and the record marker it yields a header and the records in    *)
(* order, a record gives its field pairs as a list that can be modified,   *)
(* and writes itself back as a backslash, the marker, a space unless the   *)
(* content starts with a newline, and the content (as print_joined does).  *)
(***************************************************************************)
\* the index of the first character of s that ends a marker, or Len(s) + 1
RECURSIVE marker_end(_, _)
marker_end(s, k) ==
    IF k > Len(s) \/ s[k] \in {" ", "\n"} THEN k ELSE marker_end(s, k + 1)

\* the field pair of the text that follows a backslash
field_of(chunk) ==
    LET k == marker_end(chunk, 1) IN
    << SubSeq(chunk, 1, k - 1),
       IF k <= Len(chunk) /\ chunk[k] = " " THEN SubSeq(chunk, k + 1, Len(chunk))
       ELSE SubSeq(chunk, k, Len(chunk)) >>

\* a field pair as text
field_as_string(field) ==
    <<Backslash>> \o field[1]
        \o (IF startswith(field[2], <<"\n">>) THEN <<>> ELSE <<" ">>)
        \o field[2]

RECURSIVE fields_as_string(_)
\* sfm_record.as_string()
fields_as_string(fields) ==
    IF fields = <<>> THEN <<>>
    ELSE field_as_string(Head(fields)) \o fields_as_string(Tail(fields))

RECURSIVE group_records(_, _, _)
\* the fields grouped into records, each starting at a record-marker field;
\* cur is the record being collected
group_records(fields, record_marker, cur) ==
    IF fields = <<>> THEN <<cur>>
    ELSE IF Head(fields)[1] = record_marker
    THEN <<cur>> \o group_records(Tail(fields), record_marker, <<Head(fields)>>)
    ELSE group_records(Tail(fields), record_marker, Append(cur, Head(fields)))

\* sfm.SFMRecordReader(data, record_marker): the header and the records
SFMRecordReader(data, record_marker) ==
    LET chunks == split(data, Backslash)
        fields == [k \in 1..(Len(chunks) - 1) |-> field_of(chunks[k + 1])]
        groups == group_records(fields, record_marker, <<>>)
    IN  [header |-> Head(chunks) \o fields_as_string(Head(groups)),
         records |-> Tail(groups)]

(***************************************************************************)
(* run_sample and execute                                                  *)
(***************************************************************************)
\* the canned record of lines 229-232
sample_record ==
    << <<Str_lx, <<"b", "l", "e", "e", "h", "\n", "\n">> >>,
       <<Str_de, <<"f", "o", "o", " ", "e", "e", "h", "\n">> >>,
       <<Str_se, <<"y", "e", "e", "d", "a", "\n">> >>,
       <<Str_de, <<"b", "e", "e", "h", "\n">> >> >>

RECURSIVE sample_loop_first_narrow(_, _)
\* a variant that stops after the first narrow rule
sample_loop_first_narrow(regexes, record) ==
    IF regexes = <<>> THEN [record |-> record, raised |-> FALSE]
    ELSE IF Head(regexes).narrow
    THEN LET r == apply_narrowly(Head(regexes), record)
         IN  [record |-> r.record, raised |-> r.raised]
    ELSE sample_loop_first_narrow(Tail(regexes), record)

RECURSIVE sample_loop(_, _)
\* lines 234-236: the narrow rules applied in order to the record; an
\* exception of apply_narrowly ends the loop
sample_loop(regexes, record) ==
    IF regexes = <<>> THEN [record |-> record, raised |-> FALSE]
    ELSE IF Head(regexes).narrow
    THEN LET r == apply_narrowly(Head(regexes), record)
         IN  IF r.raised THEN [record |-> r.record, raised |-> TRUE]
             ELSE sample_loop(Tail(regexes), r.record)
    ELSE sample_loop(Tail(regexes), record)

\* run_sample: what it prints, and whether an exception left it
run_sample(regexes) ==
    LET r == sample_loop(regexes, sample_record) IN
    [raised |-> r.raised,
     printed |-> << [msg |-> "Import ERROR"],
                    [msg |-> "BEFORE:", record |-> sample_record] >>
                 \o (IF r.raised THEN <<>>
                     ELSE << [msg |-> "AFTER:", record |-> r.record] >>)]

RECURSIVE narrow_pass_data_before_write(_, _, _, _, _)
\* a variant that sets data from data_out before the record is written
narrow_pass_data_before_write(regex, records, data_out, data, modcount) ==
    IF records = <<>> THEN [data |-> data, modcount |-> modcount, raised |-> FALSE]
    ELSE LET r == apply_narrowly(regex, Head(records))
             out == data_out \o fields_as_string(r.record)
         IN  IF r.raised
             THEN [data |-> data, modcount |-> modcount, raised |-> TRUE]
             ELSE narrow_pass_data_before_write(regex, Tail(records), out, data_out,
                                                modcount + r.count)

RECURSIVE narrow_pass(_, _, _, _, _)
\* lines 296-302: every record is modified and written to data_out, and
\* data is set from data_out after each record; an exception of
\* apply_narrowly ends the loop
narrow_pass(regex, records, data_out, data, modcount) ==
    IF records = <<>> THEN [data |-> data, modcount |-> modcount, raised |-> FALSE]
    ELSE LET r == apply_narrowly(regex, Head(records))
             out == data_out \o fields_as_string(r.record)
         IN  IF r.raised
             THEN [data |-> data, modcount |-> modcount, raised |-> TRUE]
             ELSE narrow_pass(regex, Tail(records), out, out, modcount + r.count)

\* a variant that skips a rule that fails and goes on with the next one
apply_in_mode_skips_failed(locals, regex) ==
    IF ~regex.narrow
    THEN LET r == apply(regex, locals.data)
         IN  IF r.raised
             THEN [data |-> locals.data, modcount |-> 0, raised |-> FALSE]
             ELSE [data |-> r.value[1], modcount |-> r.value[2], raised |-> FALSE]
    ELSE LET reader == SFMRecordReader(locals.data, locals.record_marker)
         IN  [narrow_pass(regex, reader.records, reader.header, locals.data, 0)
                EXCEPT !.raised = FALSE]

\* lines 283-302: the rule applied in its mode
apply_in_mode(locals, regex) ==
    IF ~regex.narrow
    THEN LET r == apply(regex, locals.data)
         IN  IF r.raised
             THEN [data |-> locals.data, modcount |-> 0, raised |-> TRUE]
             ELSE [data |-> r.value[1], modcount |-> r.value[2], raised |-> FALSE]
    ELSE LET reader == SFMRecordReader(locals.data, locals.record_marker)
         IN  narrow_pass(regex, reader.records, reader.header, locals.data, 0)

\* a variant of the loop body that applies the rule and counts, but does
\* not keep the document it produced
loop_pass_keeps_data(locals, regex) ==
    LET res == apply_in_mode(locals, regex) IN
    [raised |-> res.raised,
     locals |-> IF res.raised
                THEN [locals EXCEPT !.i = @ + 1, !.modcount = res.modcount]
                ELSE [locals EXCEPT !.i = @ + 1, !.modcount = res.modcount,
                                    !.modcounttotal = @ + res.modcount]]

\* a variant of the loop body that does not start the rule's count at zero
loop_pass_carries_count(locals, regex) ==
    LET res == apply_in_mode(locals, regex) IN
    [raised |-> res.raised,
     locals |-> IF res.raised
                THEN [locals EXCEPT !.i = @ + 1, !.data = res.data,
                                    !.modcount = @ + res.modcount]
                ELSE [locals EXCEPT !.i = @ + 1, !.data = res.data,
                                    !.modcount = @ + res.modcount,
                                    !.modcounttotal = @ + locals.modcount + res.modcount]]

\* lines 275-305: one pass of the loop over the rules: the locals after it,
\* and whether an exception left it
loop_pass(locals, regex) ==
    LET res == apply_in_mode(locals, regex) IN
    [raised |-> res.raised,
     locals |-> IF res.raised
                THEN [locals EXCEPT !.i = @ + 1, !.data = res.data,
                                    !.modcount = res.modcount]
                ELSE [locals EXCEPT !.i = @ + 1, !.data = res.data,
                                    !.modcount = res.modcount,
                                    !.modcounttotal = @ + res.modcount]]

(***************************************************************************)
(* execute, step by step, on a rule file, an input file, an output path    *)
(* that may exist, and with or without SFMTools installed.                 *)
(***************************************************************************)
MaxRules == 2

Str_a == <<"a">>
Str_b == <<"b">>
Str_c == <<"c">>
\* a replacement that refers to group 1
Str_group1 == <<Backslash, "1">>

\* the entries rule files are made of
EntryInputs ==
    [find : {Str_a}, replace : {Str_b}, scope : {BROAD, NARROW, NARROW \o <<":", " ">> \o Str_de}]
    \cup
    [find : {Str_b}, replace : {Str_c}, scope : {BROAD, NARROW, NARROW \o <<":", " ">> \o Str_de}]
    \cup
    [find : {Str_b}, replace : {Str_group1}, scope : {BROAD, NARROW \o <<":", " ">> \o Str_de}]

RECURSIVE entry_lines(_)
entry_lines(entries) ==
    IF entries = <<>> THEN <<>>
    ELSE <<Line_desc, Ln(Head(entries).scope), Ln(Head(entries).find),
           Ln(Head(entries).replace)>> \o entry_lines(Tail(entries))

\* a rule file: the stop line, the tossed line, a record-marker line that
\* keeps the default, and the entries
RuleFile(entries) == <<Line_stop, Line_blank, Line_blank>> \o entry_lines(entries)

RuleFileInputs ==
    {RuleFile(es) : es \in UNION {[1..n -> EntryInputs] : n \in 0..MaxRules}}

\* documents: plain text, one record, and a header with two records
DocInputs ==
    { <<"a">>,
      <<Backslash, "l", "x", " ", "a", "\n", Backslash, "d", "e", " ", "a", "b", "\n">>,
      <<"a", "\n", Backslash, "l", "x", " ", "a", "\n",
        Backslash, "l", "x", " ", "b", "\n", Backslash, "d", "e", " ", "a", "\n">> }

NoFile == [exists |-> FALSE]
File(data) == [exists |-> TRUE, data |-> data]
OldOutput == <<"o", "l", "d">>

Init ==
    /\ obj = None /\ call = NoCall /\ ret = None /\ L = <<>>
    /\ config \in RuleFileInputs
    /\ writer = WriterStart
    /\ pc = "idle"
    /\ gr = gr_start
    /\ exc = None
    /\ args \in [overwr : BOOLEAN]
    /\ fs \in [infile : {NoFile} \cup {File(d) : d \in DocInputs},
               outfile : {NoFile, File(OldOutput)},
               writes : {0},
               SFMTools : {"installed", "missing"}]
    /\ step = "start"
    /\ run = None
    /\ stdout = <<>>
    /\ error = None

other_vars == <<obj, call, ret, L, config, writer, pc, gr, exc, args>>

\* lines 241-251: the rule file is parsed (a local is in `assigned` once it
\* has been given a value; until then its value here stands for nothing)
GetRegexes ==
    /\ step = "start"
    /\ LET r == get_regexes(config) IN
       IF r.raised
       THEN /\ step' = "raised"
            /\ error' = r
            /\ UNCHANGED run
       ELSE /\ step' = "check"
            /\ run' = [record_marker |-> r.value[1], regexes |-> r.value[2],
                       some_narrow |-> \E k \in 1..Len(r.value[2]) : r.value[2][k].narrow,
                       modcount |-> 0, modcounttotal |-> 0, data |-> <<>>, i |-> 0,
                       assigned |-> {"modcount"}]
            /\ UNCHANGED error
    /\ UNCHANGED <<other_vars, fs, stdout>>

\* lines 252-255: the output path is checked
CheckOutput ==
    /\ step = "check"
    /\ IF ~args.overwr /\ fs.outfile.exists
       THEN /\ stdout' = Append(stdout, [msg |-> "Output file already exists! Aborted."])
            /\ step' = "finish"
       ELSE /\ step' = "load"
            /\ UNCHANGED stdout
    /\ UNCHANGED <<other_vars, fs, run, error>>

\* lines 256-263: the input file is read
LoadInput ==
    /\ step = "load"
    /\ IF ~fs.infile.exists
       THEN /\ step' = "raised"
            /\ error' = Raise("IOError", "infile")
            /\ UNCHANGED run
       ELSE /\ step' = "import"
            /\ run' = [run EXCEPT !.data = fs.infile.data,
                                  !.assigned = @ \cup {"data"}]
            /\ UNCHANGED error
    /\ UNCHANGED <<other_vars, fs, stdout>>

\* a variant that imports SFMTools whatever the rules are
needs_import_always(locals) == TRUE

\* line 265: SFMTools is wanted
needs_import(locals) == locals.some_narrow

\* lines 265-273: SFMTools is imported if some rule is narrow
ImportSFM ==
    /\ step = "import"
    /\ IF needs_import(run) /\ fs.SFMTools = "missing"
       THEN /\ stdout' = stdout \o run_sample(run.regexes).printed
            /\ step' = "raised"
            /\ error' = IF run_sample(run.regexes).raised
                        THEN Raise("re.error", "run_sample")
                        ELSE Raise("Exception", "Aborted.")
            /\ UNCHANGED run
       ELSE /\ step' = "loop"
            /\ run' = [run EXCEPT !.i = 0, !.modcounttotal = 0,
                                  !.assigned = @ \cup {"modcounttotal"}
                                      \cup (IF needs_import(run) THEN {"sfm"} ELSE {})]
            /\ UNCHANGED <<stdout, error>>
    /\ UNCHANGED <<other_vars, fs>>

\* lines 284 and 293: the mode the rule is applied in is printed before
\* apply, or before the record reader is called
mode_printed(regex) == [msg |-> IF regex.narrow THEN "Narrowly" ELSE "Broadly"]

\* lines 274-305: the next rule is applied
LoopPass ==
    /\ step = "loop"
    /\ run.i < Len(run.regexes)
    /\ LET r == loop_pass(run, run.regexes[run.i + 1]) IN
       /\ run' = r.locals
       /\ IF r.raised
          THEN /\ step' = "raised"
               /\ error' = Raise("re.error", run.regexes[run.i + 1]._replace)
               /\ stdout' = Append(stdout, mode_printed(run.regexes[run.i + 1]))
          ELSE /\ stdout' = stdout \o << mode_printed(run.regexes[run.i + 1]),
                                         [msg |-> "made changes",
                                          count |-> r.locals.modcount] >>
               /\ UNCHANGED <<step, error>>
    /\ UNCHANGED <<other_vars, fs>>

\* lines 307-308: the document is written to the output file
WriteOutput ==
    /\ step = "loop"
    /\ run.i = Len(run.regexes)
    /\ fs' = [fs EXCEPT !.outfile = File(run.data), !.writes = @ + 1]
    /\ step' = "finish"
    /\ UNCHANGED <<other_vars, run, stdout, error>>

\* lines 309-310: the total is printed
PrintDone ==
    /\ step = "finish"
    /\ IF "modcounttotal" \in run.assigned
       THEN /\ stdout' = Append(stdout, [msg |-> "Done.", total |-> run.modcounttotal])
            /\ step' = "returned"
            /\ UNCHANGED error
       ELSE /\ step' = "raised"
            /\ error' = Raise("UnboundLocalError", "modcounttotal")
            /\ UNCHANGED stdout
    /\ UNCHANGED <<other_vars, fs, run>>

Next ==
    \/ GetRegexes
    \/ CheckOutput
    \/ LoadInput
    \/ ImportSFM
    \/ LoopPass
    \/ WriteOutput
    \/ PrintDone

Spec == Init /\ [][Next]_vars

(***************************************************************************)
(* The rule-file format, read off the file's lines: what the file holds,   *)
(* whatever the parser made of it.                                         *)
(***************************************************************************)
\* a line without its line end
Text(line) ==
    IF line # <<>> /\ line[Len(line)] = "\n" THEN SubSeq(line, 1, Len(line) - 1)
    ELSE line

HasPrefix(s, a, b) == Len(s) >= 2 /\ s[1] = a /\ s[2] = b

IsStopLine(line) == HasPrefix(line, "}", "}")
IsDescLine(line) == HasPrefix(line, "#", "#")
IsBlankLine(line) == \A k \in 1..Len(line) : line[k] \in {" ", "\n"}

HasStopLine(lines) == \E k \in 1..Len(lines) : IsStopLine(lines[k])

FirstStop(lines) == CHOOSE k \in 1..Len(lines) :
    IsStopLine(lines[k]) /\ \A j \in 1..(k - 1) : ~IsStopLine(lines[j])

Drop(lines, n) == IF n >= Len(lines) THEN <<>> ELSE SubSeq(lines, n + 1, Len(lines))

\* the lines after the stop line, the tossed line and the record-marker line
BodyOf(lines) == IF HasStopLine(lines) THEN Drop(lines, FirstStop(lines) + 2) ELSE <<>>

RECURSIVE DropDesc(_)
DropDesc(lines) ==
    IF lines # <<>> /\ IsDescLine(Head(lines)) THEN DropDesc(Tail(lines)) ELSE lines

RECURSIVE EntriesOf(_)
\* the complete entries of a body in file order, the lines of a final entry
\* that is not complete, and whether every entry starts with a description
EntriesOf(lines) ==
    IF lines = <<>> THEN [entries |-> <<>>, rest |-> <<>>, ok |-> TRUE]
    ELSE IF IsBlankLine(Head(lines)) THEN EntriesOf(Tail(lines))
    ELSE IF ~IsDescLine(Head(lines)) THEN [entries |-> <<>>, rest |-> lines, ok |-> FALSE]
    ELSE LET after == DropDesc(lines) IN
         IF Len(after) < 3 THEN [entries |-> <<>>, rest |-> lines, ok |-> TRUE]
         ELSE LET more == EntriesOf(Drop(after, 3))
                  e == [scope |-> Text(after[1]), find |-> Text(after[2]),
                        replace |-> Text(after[3])]
              IN  [more EXCEPT !.entries = <<e>> \o @]

StartsWithDisable(label) ==
    /\ Len(label) >= 7
    /\ lower(SubSeq(label, 1, 7)) = <<"d", "i", "s", "a", "b", "l", "e">>

EnabledOf(entries) == SelectSeq(entries, LAMBDA e : ~StartsWithDisable(e.scope))

\* the rule each entry of the sequence makes
RulesOf(entries) ==
    [k \in 1..Len(entries) |->
        RegExpression(entries[k].find, entries[k].replace, entries[k].scope).self]

Ended == pc \in {"returned", "raised"}
FileEntries == EntriesOf(BodyOf(config))

(***************************************************************************)
(* Properties of get_regexes, checked under SpecParse.                     *)
(***************************************************************************)
\* C1: when get_regexes returns, the rule list is the rules of the file's
\* complete entries whose scope label does not start with "disable" (any
\* case), in file order; and no construction error ever comes from an entry
\* whose label starts with "disable": such an entry is dropped unvalidated.
C1_DisabledDropped ==
    /\ pc = "returned" =>
          ret.value[2] = RulesOf(EnabledOf(FileEntries.entries))
    /\ (pc = "raised" /\ exc.exc \in {"re.error", "InvalidScope"}) =>
          ~StartsWithDisable(Text(config[Len(config) - 2]))

\* C1 witness: a returned parse of a file whose first entry is disabled and
\* has a find pattern that does not compile, followed by an enabled entry.
C1_Witness ==
    /\ pc = "returned"
    /\ Len(FileEntries.entries) >= 2
    /\ StartsWithDisable(FileEntries.entries[1].scope)
    /\ contains(FileEntries.entries[1].find, "(")
    /\ ~StartsWithDisable(FileEntries.entries[2].scope)

\* C6: get_regexes never returns an empty rule list; a file whose entries
\* are all complete and all disabled, or that has no entry after the
\* header, fails with the configuration error.
C6_NeverEmpty ==
    /\ pc = "returned" => Len(ret.value[2]) >= 1
    /\ (Ended /\ writer.eof /\ FileEntries.ok /\ FileEntries.rest = <<>>
            /\ EnabledOf(FileEntries.entries) = <<>>) =>
          (pc = "raised" /\ exc.exc = "Config")

\* C6 witness: a file with a stop line whose entries are all disabled
\* failed with the no-rules error.
C6_Witness ==
    /\ pc = "raised" /\ exc.exc = "Config" /\ exc.reason = "no rules"
    /\ HasStopLine(config)
    /\ Len(FileEntries.entries) >= 1

\* C7: get_regexes returns only with the entry state machine in state 0
\* and no dangling entry; a file that ends inside an entry fails with the
\* configuration error, however many complete enabled rules came before.
C7_IncompleteFails ==
    /\ pc = "returned" => (gr.state = 0 /\ FileEntries.rest = <<>>)
    /\ (Ended /\ writer.eof /\ FileEntries.ok /\ FileEntries.rest # <<>>) =>
          (pc = "raised" /\ exc.exc = "Config" /\ exc.reason = "incomplete")

\* C7 witness: a file ending after a find line, with an enabled rule
\* accepted before, failed.
C7_Witness ==
    /\ pc = "raised" /\ exc.exc = "Config" /\ exc.reason = "incomplete"
    /\ gr.state = 3
    /\ Len(gr.regexes) >= 1

\* C8: a file in which no line starts with the stop marker fails with the
\* configuration error of the zero-rules check, whatever else it holds.
C8_NoStopFails ==
    (Ended /\ ~HasStopLine(config)) =>
        (pc = "raised" /\ exc.exc = "Config" /\ exc.reason = "no rules")

\* C8 witness: a file without a stop line that holds a well-formed enabled
\* entry (description, broad, find, replace) failed.
C8_Witness ==
    /\ pc = "raised"
    /\ ~HasStopLine(config)
    /\ \E k \in 1..(Len(config) - 3) :
          /\ IsDescLine(config[k])
          /\ config[k + 1] = Line_broad
          /\ config[k + 2] = Line_find

\* C9: the line number of the error raised for a line that is no
\* description where an entry must start is the 1-based number of that
\* line in the file (the last line read).
C9_LineNumberExact ==
    (pc = "raised" /\ exc.exc = "Config" /\ exc.reason = "description") =>
        exc.line = Len(config)

\* C16: the error that leaves get_regexes when the rule of an enabled
\* entry cannot be constructed (an unrecognized scope label, a find
\* pattern that does not compile) is the configuration error and carries
\* a line number.
C16_ErrorsCarryLine ==
    (pc = "raised" /\ gr.state = 3 /\ gr.replace_with # None) =>
        (exc.exc = "Config" /\ exc.has_line)

\* the text without the blanks and line ends at its two ends
Trimmed(s) ==
    LET keep == {k \in 1..Len(s) : s[k] \notin {" ", "\n", "\r", "\t"}} IN
    IF keep = {} THEN <<>>
    ELSE SubSeq(s, CHOOSE k \in keep : \A j \in keep : k <= j,
                   CHOOSE k \in keep : \A j \in keep : k >= j)

\* the record-marker name a record-marker line declares
DeclaredMarker(line) ==
    LET colons == {k \in 1..Len(line) : line[k] = ":"} IN
    IF colons = {} THEN <<"l", "x">>
    ELSE Trimmed(SubSeq(line, 1 + (CHOOSE k \in colons : \A j \in colons : k >= j),
                        Len(line)))

\* the second line after the stop line; empty if the file has none
MarkerLine ==
    IF HasStopLine(config) /\ Len(config) >= FirstStop(config) + 2
    THEN config[FirstStop(config) + 2] ELSE <<>>

HeaderRead == pc \in {"entries", "returned", "raised"}

\* C19: the two lines after the stop line are consumed whatever they hold
\* and never reach the entry state machine: once they are read the state
\* is 0 with no rule, no error comes from them, the record-marker name is
\* the trimmed text after the last colon of the second line (possibly
\* empty) or "lx" if it has none, and the rules returned are those of the
\* entries that start at the third line after the stop line.
C19_HeaderLinesConsumed ==
    /\ HeaderRead => gr.record_marker = DeclaredMarker(MarkerLine)
    /\ (HeaderRead /\ HasStopLine(config) /\ Len(config) <= FirstStop(config) + 2) =>
          (gr.state = 0 /\ gr.regexes = <<>>
             /\ (pc = "raised" => exc.reason = "no rules"))
    /\ pc = "returned" =>
          /\ ret.value[1] = DeclaredMarker(MarkerLine)
          /\ Len(ret.value[2]) = Len(EnabledOf(FileEntries.entries))

\* C19 witness: the line after the stop line is a description line, the
\* next one ends with a colon, and the parse returned an empty
\* record-marker name and the one rule of the one entry that follows.
C19_Witness ==
    /\ pc = "returned"
    /\ IsDescLine(config[FirstStop(config) + 1])
    /\ MarkerLine = <<"a", ":", "b", ":", "\n">>
    /\ ret.value[1] = <<>>
    /\ Len(ret.value[2]) = 1

\* a step of the entry loop: one more line of the file has been consumed
EntryStep == pc = "entries" /\ Len(config') = Len(config) + 1

\* the line that step consumed, without its line end
EntryLine == Text(config'[Len(config')])

\* what one step of get_regexes may do to the entry state machine
EntryStepOK ==
    /\ gr'.state \in 0..3
    /\ Len(gr'.regexes) # Len(gr.regexes) =>
          /\ EntryStep /\ gr.state = 3 /\ gr'.state = 0
          /\ gr'.regexes = Append(gr.regexes, gr'.regexes[Len(gr'.regexes)])
          /\ gr'.regexes[Len(gr'.regexes)]._findstr = gr.find_this
          /\ gr'.regexes[Len(gr'.regexes)]._replace = EntryLine
    /\ ~EntryStep => gr'.state = gr.state
    /\ (EntryStep /\ gr.state = 0) =>
          /\ IsBlankLine(EntryLine) => (gr'.state = 0 /\ exc' = None)
          /\ gr'.state \in {0, 1}
    /\ (EntryStep /\ gr.state = 1) =>
          IF IsDescLine(EntryLine) THEN gr'.state = 1
          ELSE gr'.state = 2 /\ gr'.scope = EntryLine
    /\ (EntryStep /\ gr.state = 2) =>
          (gr'.state = 3 /\ gr'.find_this = EntryLine /\ gr'.scope = gr.scope)
    /\ (EntryStep /\ gr.state = 3) =>
          IF exc' = None THEN gr'.state = 0
          ELSE gr'.state = 3 /\ gr'.replace_with = EntryLine

\* C20: each entry takes exactly one line each for its scope, find and
\* replace: in state 1 the first line that does not start with "##" is the
\* scope label as written, blank or not; in states 2 and 3 the line, less
\* its line end only, is the find or the replace string, blank or
\* starting with "##" or not; blank lines are skipped in state 0 only.
\* The state is always in 0..3, and a rule is appended only on the step
\* from state 3 to state 0, made of the find line and the replace line.
C20_OneLineEach == [][EntryStepOK]_vars

\* C20 witness: a parse returned a rule whose find string is "##" and
\* whose replace string is empty, and one whose find string is " e ".
C20_Witness ==
    /\ pc = "returned"
    /\ \E k \in 1..Len(ret.value[2]) :
          /\ ret.value[2][k]._findstr = <<"#", "#">>
          /\ ret.value[2][k]._replace = <<>>
    /\ \E k \in 1..Len(ret.value[2]) : ret.value[2][k]._findstr = <<" ", "e", " ">>

(***************************************************************************)
(* Properties of execute, checked under Spec.                              *)
(***************************************************************************)
RECURSIVE RecordsAsString(_, _)
\* the records of a document after a narrow rule, as text
RecordsAsString(regex, records) ==
    IF records = <<>> THEN <<>>
    ELSE fields_as_string(apply_narrowly(regex, Head(records)).record)
            \o RecordsAsString(regex, Tail(records))

\* the document one rule makes of a document
RuleOn(regex, d, marker) ==
    IF ~regex.narrow THEN subn(regex._findstr, regex._replace, d)[1]
    ELSE LET reader == SFMRecordReader(d, marker)
         IN  reader.header \o RecordsAsString(regex, reader.records)

RECURSIVE Composed(_, _, _)
\* rn(...r2(r1(d))...)
Composed(regexes, d, marker) ==
    IF regexes = <<>> THEN d
    ELSE Composed(Tail(regexes), RuleOn(Head(regexes), d, marker), marker)

IsBroadRule(regex, find, replace) ==
    ~regex.narrow /\ regex._findstr = find /\ regex._replace = replace

\* C2: rules are applied in rule-list order, each to the document the
\* previous one produced: after i rules the document is ri(...r1(d)...),
\* and the document written is rn(...r1(d)...); broad rules a->b, b->c
\* make "c" of "a".
C2_AppliedInOrder ==
    /\ step = "loop" =>
          run.data = Composed(SubSeq(run.regexes, 1, run.i), fs.infile.data,
                              run.record_marker)
    /\ fs.writes > 0 =>
          fs.outfile.data = Composed(run.regexes, fs.infile.data, run.record_marker)
    /\ (/\ fs.writes > 0
        /\ fs.infile.data = <<"a">>
        /\ Len(run.regexes) = 2
        /\ IsBroadRule(run.regexes[1], <<"a">>, <<"b">>)
        /\ IsBroadRule(run.regexes[2], <<"b">>, <<"c">>)) =>
          fs.outfile.data = <<"c">>

\* C2 witness: the rules a->b, b->c were applied to "a" and "c" was written.
C2_Witness ==
    /\ step = "returned"
    /\ fs.infile.data = <<"a">>
    /\ Len(run.regexes) = 2
    /\ IsBroadRule(run.regexes[1], <<"a">>, <<"b">>)
    /\ IsBroadRule(run.regexes[2], <<"b">>, <<"c">>)
    /\ fs.outfile.data = <<"c">>

SaidOutputExists ==
    \E k \in 1..Len(stdout) : stdout[k].msg = "Output file already exists! Aborted."

\* C10: when the output path exists and overwrite is not set, execute
\* reports it, applies no rule, writes nothing, and raises no error.
C10_ExistsReturnsNormally ==
    SaidOutputExists =>
        /\ run.i = 0
        /\ fs.writes = 0
        /\ fs.outfile = File(OldOutput)
        /\ step # "raised"

\* does a record hold a field the rule substitutes in
TouchesRecord(regex, record) ==
    \E k \in 1..Len(record) :
        (~regex._narrow_specific) \/ (record[k][1] \in Range(regex._fields))

\* a rule whose replacement is no valid template fails on a document when
\* it substitutes anywhere in it
RuleFailsOn(regex, d, marker) ==
    /\ contains(regex._replace, Backslash)
    /\ \/ ~regex.narrow
       \/ LET records == SFMRecordReader(d, marker).records
          IN  \E k \in 1..Len(records) : TouchesRecord(regex, records[k])

RECURSIVE SomeRuleFails(_, _, _)
\* applied in order to d, some rule of the list fails
SomeRuleFails(regexes, d, marker) ==
    /\ regexes # <<>>
    /\ \/ RuleFailsOn(Head(regexes), d, marker)
       \/ SomeRuleFails(Tail(regexes), RuleOn(Head(regexes), d, marker), marker)

\* the passes of the loop that ran to their end
PassesDone == Len(SelectSeq(stdout, LAMBDA m : m.msg = "made changes"))

\* C11: the output file is written at most once, and only after every rule
\* of the list was applied without error; once an error left execute
\* (from parsing the rule file, loading the input, importing the record
\* reader or applying a rule) the output file has not been written, and a
\* run in which some rule fails never writes it.
C11_NoPartialOutput ==
    /\ fs.writes <= 1
    /\ fs.writes = 1 =>
          /\ error = None
          /\ PassesDone = Len(run.regexes)
          /\ fs.outfile = File(run.data)
    /\ step = "raised" =>
          (fs.writes = 0 /\ fs.outfile \in {NoFile, File(OldOutput)})
    /\ (run # None /\ fs.infile.exists
            /\ SomeRuleFails(run.regexes, fs.infile.data, run.record_marker)) =>
          fs.writes = 0

\* C11 witness: the second of two rules failed after the first had changed
\* the document; the output path, which existed, was left as it was.
C11_Witness ==
    /\ step = "raised" /\ error.exc = "re.error"
    /\ run.i = 2 /\ PassesDone = 1
    /\ run.data # fs.infile.data
    /\ args.overwr /\ fs.outfile = File(OldOutput)

RECURSIVE RecordsCount(_, _)
\* the replacements a narrow rule makes in the records of a document
RecordsCount(regex, records) ==
    IF records = <<>> THEN 0
    ELSE apply_narrowly(regex, Head(records)).count
            + RecordsCount(regex, Tail(records))

\* the replacements one rule makes in a document
CountOn(regex, d, marker) ==
    IF ~regex.narrow THEN subn(regex._findstr, regex._replace, d)[2]
    ELSE RecordsCount(regex, SFMRecordReader(d, marker).records)

\* the replacements the k-th rule of the run makes in the document the
\* rules before it produced
CountOfRule(k) ==
    CountOn(run.regexes[k],
            Composed(SubSeq(run.regexes, 1, k - 1), fs.infile.data, run.record_marker),
            run.record_marker)

RECURSIVE SumTo(_)
SumTo(k) == IF k = 0 THEN 0 ELSE SumTo(k - 1) + CountOfRule(k)

ChangesPrinted == SelectSeq(stdout, LAMBDA m : m.msg = "made changes")
TotalsPrinted == SelectSeq(stdout, LAMBDA m : m.msg = "Done.")

\* C12: the total execute reports is the sum, over the rules in order, of
\* the replacements each rule made (a broad rule's substitute-all count
\* on the whole document, a narrow rule's apply_narrowly counts summed
\* over the records); the count reported for each rule is that rule's own,
\* and the running total after i rules is the sum of the first i counts.
C12_TotalIsSum ==
    /\ step = "loop" => run.modcounttotal = SumTo(run.i)
    /\ (run # None /\ fs.infile.exists) =>
          \A k \in 1..Len(ChangesPrinted) : ChangesPrinted[k].count = CountOfRule(k)
    /\ \A k \in 1..Len(TotalsPrinted) :
          TotalsPrinted[k].total = SumTo(Len(run.regexes))

\* C12 witness: a narrow rule changed two records, a broad rule then made
\* three replacements, and the total reported was five.
C12_Witness ==
    /\ step = "returned"
    /\ Len(run.regexes) = 2
    /\ run.regexes[1].narrow /\ ~run.regexes[2].narrow
    /\ ChangesPrinted[1].count = 2
    /\ ChangesPrinted[2].count = 3
    /\ TotalsPrinted = << [msg |-> "Done.", total |-> 5] >>

AllBroad == run # None /\ \A k \in 1..Len(run.regexes) : ~run.regexes[k].narrow

Said(msg) == \E k \in 1..Len(stdout) : stdout[k].msg = msg

RECURSIVE BroadComposed(_, _)
\* the document after substitute-all with each rule in order
BroadComposed(regexes, d) ==
    IF regexes = <<>> THEN d
    ELSE BroadComposed(Tail(regexes),
                       subn(Head(regexes)._findstr, Head(regexes)._replace, d)[1])

\* C13: when no rule of the parsed list is narrow, SFMTools is never
\* imported and the record reader never called: every rule is applied
\* broadly to the document string, and no error of the run comes from the
\* import, whether SFMTools is installed or not.
C13_AllBroadNeedsNoReader ==
    AllBroad =>
        /\ "sfm" \notin run.assigned
        /\ ~Said("Narrowly") /\ ~Said("Import ERROR")
        /\ step = "loop" =>
              run.data = BroadComposed(SubSeq(run.regexes, 1, run.i), fs.infile.data)
        /\ step = "raised" =>
              error.exc \in {"IOError", "UnboundLocalError", "re.error"}

\* C13 witness: with SFMTools missing, two broad rules were applied and the
\* run wrote its output and returned.
C13_Witness ==
    /\ step = "returned"
    /\ fs.SFMTools = "missing"
    /\ AllBroad /\ Len(run.regexes) = 2
    /\ fs.writes = 1
    /\ Said("Broadly")

NarrowOnly(regexes) == SelectSeq(regexes, LAMBDA x : x.narrow)

RECURSIVE Demo(_, _)
\* the record after each rule of the list was applied narrowly, in order
Demo(regexes, record) ==
    IF regexes = <<>> THEN record
    ELSE Demo(Tail(regexes), apply_narrowly(Head(regexes), record).record)

\* some narrow rule of the list fails on the sample record
DemoFails(regexes) ==
    \E k \in 1..Len(regexes) :
        /\ regexes[k].narrow
        /\ contains(regexes[k]._replace, Backslash)
        /\ TouchesRecord(regexes[k], sample_record)

ImportFailed ==
    /\ run # None /\ run.some_narrow /\ fs.SFMTools = "missing"
    /\ step \notin {"start", "check", "load", "import"}
    /\ ~SaidOutputExists
    /\ fs.infile.exists

\* C14: when some rule is narrow and SFMTools cannot be imported, execute
\* prints the sample record, applies the narrow rules, and only those, to
\* it in order, prints the result, and raises; no rule has been applied to
\* the document and the output file is not written.  (A narrow rule that
\* fails on the sample record ends the demonstration with its own error.)
C14_DemoThenAbort ==
    ImportFailed =>
        /\ step = "raised"
        /\ stdout[1].msg = "Import ERROR"
        /\ stdout[2] = [msg |-> "BEFORE:", record |-> sample_record]
        /\ IF DemoFails(run.regexes)
           THEN error.exc = "re.error" /\ Len(stdout) = 2
           ELSE /\ error = Raise("Exception", "Aborted.")
                /\ Len(stdout) = 3
                /\ stdout[3] = [msg |-> "AFTER:",
                                record |-> Demo(NarrowOnly(run.regexes), sample_record)]
        /\ run.i = 0 /\ run.data = fs.infile.data
        /\ ~Said("Broadly") /\ ~Said("Narrowly")
        /\ fs.writes = 0 /\ fs.outfile \in {NoFile, File(OldOutput)}

\* C14 witness: with SFMTools missing and the rules narrow a->b, narrow
\* b->c, the sample record was printed with "yeeda" turned into "yeedc".
C14_Witness ==
    /\ ImportFailed
    /\ Len(run.regexes) = 2
    /\ run.regexes[1].narrow /\ run.regexes[2].narrow
    /\ ~run.regexes[1]._narrow_specific
    /\ Len(stdout) = 3
    /\ stdout[3].record[3] = <<Str_se, <<"y", "e", "e", "d", "c", "\n">> >>
    /\ stdout[3].record[1] = <<Str_lx, <<"c", "l", "e", "e", "h", "\n", "\n">> >>

\* the document the rules before the i-th left
DocBefore(i) ==
    Composed(SubSeq(run.regexes, 1, i - 1), fs.infile.data, run.record_marker)

AfterNarrowPass ==
    step = "loop" /\ run.i >= 1 /\ run.regexes[run.i].narrow

\* C17: after the pass of a narrow rule, the document is the header of the
\* document the preceding rules left, followed by each of that document's
\* records in order as the rule changed it: read again, the document has
\* the same header and as many records, the k-th being the k-th record
\* after apply_narrowly.  This holds for documents of no, one and several
\* records.
C17_NarrowReparsesAndReserializes ==
    AfterNarrowPass =>
        LET regex == run.regexes[run.i]
            before == SFMRecordReader(DocBefore(run.i), run.record_marker)
            after == SFMRecordReader(run.data, run.record_marker)
        IN  /\ run.data = before.header \o RecordsAsString(regex, before.records)
            /\ after.header = before.header
            /\ Len(after.records) = Len(before.records)
            /\ \A k \in 1..Len(before.records) :
                  after.records[k] = apply_narrowly(regex, before.records[k]).record

\* C17 witness: on a document of a header and two records, a broad rule
\* a->b and then a narrow rule b->c ran; the narrow rule changed the "b"
\* the broad rule had put in both records, and not the header.
C17_Witness ==
    /\ AfterNarrowPass /\ run.i = 2
    /\ ~run.regexes[1].narrow
    /\ fs.infile.data = <<"a", "\n", Backslash, "l", "x", " ", "a", "\n",
                          Backslash, "l", "x", " ", "b", "\n",
                          Backslash, "d", "e", " ", "a", "\n">>
    /\ run.data = <<"b", "\n", Backslash, "l", "x", " ", "c", "\n",
                    Backslash, "l", "x", " ", "c", "\n",
                    Backslash, "d", "e", " ", "c", "\n">>

====
